---- MODULE Spec2Model ----
(***************************************************************************)
(* A model of the Via audio-to-text model (src/levanter/models/via.py) and *)
(* of its training entry point (src/levanter/main/train_asr.py).           *)
(*                                                                         *)
(*   Spec     main() of train_asr.py, with connector_only as it is called  *)
(*            there: the configuration paths, the training state and the   *)
(*            trainable mask.                                              *)
(*   SpecFwd  a ViaASRModel built from the default configuration, called   *)
(*            (ViaModel.__call__) and scored (ViaASRModel.compute_loss) on *)
(*            every example within the bounds.                             *)
(*   SpecCfg  ViaConfig with every time_dialation up to its default,       *)
(*            ViaModel.init from it, and calls of the model built.         *)
(*                                                                         *)
(* Tensors are sequences: a vector is a sequence of integers over its      *)
(* embed axis, a batch a sequence of rows.  The encoder, the transformers, *)
(* the embedding table and the linear layer are library code; each is a    *)
(* fixed function with the dependencies of the real one (an attention      *)
(* output depends on the positions its mask allows, and on their order).   *)
(***************************************************************************)
EXTENDS Integers, Sequences, FiniteSets, TLC

VARIABLES
    pc,      \* main(): the block of train_asr.py that runs next
    cfg,     \* main(): the TrainASRConfig it was called with
    state,   \* main(): the local variable `state` (Unbound until assigned)
    err,     \* main(): the exception that ended it, or "none"
    config,  \* the ViaConfig
    via,     \* the ViaModel built from config (Unbound until ViaModel.init)
    call     \* the last call of the model: its inputs, what it computed on
             \* the way and what it returned or raised

vars == <<pc, cfg, state, err, config, via, call>>

mainVars == <<pc, cfg, state, err>>

viaVars == <<config, via, call>>

(***************************************************************************)
(* Bounds.                                                                 *)
(***************************************************************************)
\* parameter leaves of each sub-module whose size depends on the checkpoint
MaxLeaves == 2
\* the step a training state may have been restored at
MaxStep == 1

(***************************************************************************)
(* Parameter trees.  A tree is a function from its leaves to their values; *)
(* a leaf is named by the path of field names that leads to it and its     *)
(* index among the leaves there.  A whole node put in a tree as one leaf   *)
(* (what eqx.tree_at does) has index 0.                                    *)
(***************************************************************************)
Leaf(path, idx) == [path |-> path, idx |-> idx]

IsPrefix(p, q) == Len(p) <= Len(q) /\ SubSeq(q, 1, Len(p)) = p

\* the leaf m of one tree stands for the leaf k of another (m is k, or m is a
\* node above k put there as one leaf)
Covers(m, k) ==
    /\ IsPrefix(m.path, k.path)
    /\ (m.path = k.path => m.idx = k.idx)

QueryTokensNode == <<"query_tokens">>
ProjectionWeightNode == <<"projection", "weight">>
ProjectionBiasNode == <<"projection", "bias">>
EncoderNode == <<"encoder">>
ConnectorNode == <<"connector">>
DecoderNode == <<"decoder">>

\* the leaves of a ViaModel: query_tokens and the projection's weight and bias
\* are NamedArrays (one array leaf each); the encoder, the connector (its
\* position embeddings and its transformer) and the decoder (its embeddings
\* and its transformer) hold as many leaves as the checkpoint has.
ViaModelLeaves(nEnc, nConn, nDec) ==
    {Leaf(QueryTokensNode \o <<"array">>, 1),
     Leaf(ProjectionWeightNode \o <<"array">>, 1),
     Leaf(ProjectionBiasNode \o <<"array">>, 1),
     Leaf(ConnectorNode \o <<"embeddings", "position_embeddings">>, 1),
     Leaf(DecoderNode \o <<"embeddings">>, 1)}
    \cup {Leaf(EncoderNode, i) : i \in 1..nEnc}
    \cup {Leaf(ConnectorNode \o <<"transformer">>, i) : i \in 1..nConn}
    \cup {Leaf(DecoderNode \o <<"transformer">>, i) : i \in 1..nDec}

ViaModelTree(nEnc, nConn, nDec) ==
    [k \in ViaModelLeaves(nEnc, nConn, nDec) |-> "array"]

ModelShapes ==
    {ViaModelTree(e, c, d) : e \in 1..MaxLeaves, c \in 1..MaxLeaves, d \in 1..MaxLeaves}

\* jax.tree_util.tree_map(lambda _: v, tree)
TreeMapConst(v, tree) == [k \in DOMAIN tree |-> v]

\* eqx.tree_at(where, tree, replace): each node `where` selects is replaced,
\* whole, by one leaf holding its replacement.
TreeAt(nodes, tree, replace) ==
    LET gone == {k \in DOMAIN tree : \E i \in DOMAIN nodes : IsPrefix(nodes[i], k.path)}
        put == {Leaf(nodes[i], 0) : i \in DOMAIN nodes}
    IN  [k \in (DOMAIN tree \ gone) \cup put |->
            IF k \in put
            THEN replace[CHOOSE i \in DOMAIN nodes : nodes[i] = k.path]
            ELSE tree[k]]

connector_only_where ==
    <<QueryTokensNode, ProjectionWeightNode, ProjectionBiasNode, ConnectorNode>>

\* connector_only with the connector marked trainable as well
connector_only_connector_trainable(model) ==
    LET frozen_tree == TreeMapConst(FALSE, model)
    IN  TreeAt(connector_only_where, frozen_tree, <<TRUE, TRUE, TRUE, TRUE>>)

\* connector_only leaving the connector's leaves in the mask, one by one
connector_only_leaf_for_leaf(model) ==
    LET frozen_tree == TreeMapConst(FALSE, model)
    IN  TreeAt(SubSeq(connector_only_where, 1, 3), frozen_tree, <<TRUE, TRUE, TRUE>>)

connector_only(model) ==
    LET frozen_tree == TreeMapConst(FALSE, model)
    IN  TreeAt(connector_only_where, frozen_tree, <<TRUE, TRUE, TRUE, FALSE>>)

\* a local variable is a sequence: empty until it is assigned, then its value
Unbound == <<>>

Bound(v) == <<v>>

ValueOf(var) == var[1]

(***************************************************************************)
(* ViaConfig (via.py:29-49).                                               *)
(***************************************************************************)
\* batch rows of an example
BatchSize == 2
\* size of the position axis of the tokens (Pos) and of the query tokens
\* (TimeGroup): one number in via.py, lines 43 and 46
PosSize == 2
\* size of the embed axis of the encoder and of the decoder
EmbedSize == 2
\* keys a model may be initialised from
MaxSeed == 1

time_dialation_default == 4
pad_token_id_default == 128002

pre_audio_prompt == <<128000, 128006, 882, 128007, 271>>
pre_text_prompt == <<128009, 128006, 78191, 128007, 271>>

Batch == 1..BatchSize
Pos == 1..PosSize
TimeGroup == 1..PosSize
EncEmbed == 1..EmbedSize
DecEmbed == 1..EmbedSize

ViaConfig(time_dialation) ==
    [time_dialation |-> time_dialation,
     dialation_factor |-> 4,
     pre_audio_prompt |-> pre_audio_prompt,
     pre_text_prompt |-> pre_text_prompt]

DefaultViaConfig == ViaConfig(time_dialation_default)

\* GroupedEmbed (lines 47-49): defined by the configuration, used nowhere
GroupedEmbed(c) == EmbedSize * c.time_dialation

(***************************************************************************)
(* Arithmetic on tensors.                                                  *)
(***************************************************************************)
\* a tensor as a tuple of its entries, each computed once
Tuple(t) == t \o <<>>

RECURSIVE SumUpTo(_, _)
SumUpTo(s, n) == IF n = 0 THEN 0 ELSE s[n] + SumUpTo(s, n - 1)

SumSeq(s) == SumUpTo(s, Len(s))

\* hax.dot(x, y, axis="embed")
Dot(x, y) == SumSeq(Tuple([d \in DOMAIN x |-> x[d] * y[d]]))

VecSub(x, y) == Tuple([d \in DOMAIN x |-> x[d] - y[d]])

VecAdd(x, y) == Tuple([d \in DOMAIN x |-> x[d] + y[d]])

\* a Python index into a sequence of n items, negative ones counted from the end
PyIndex(n, i) == IF i < 0 THEN n + i + 1 ELSE i + 1

(***************************************************************************)
(* Random keys: a key is the path of splits that led to it.                *)
(***************************************************************************)
Seeds == {<<seed>> : seed \in 0..MaxSeed}

\* maybe_rng_split(key, n)
maybe_rng_split(key, n) == [i \in 1..n |-> key \o <<i>>]

\* a value drawn from a key for the entry (i, d) of a tensor
Draw(key, i, d) == ((SumSeq(key) + 2 * i + d) % 3) - 1

\* hax.random.normal(key, (Rows, Cols))
Normal(key, Rows, Cols) == Tuple([i \in Rows |-> Tuple([d \in Cols |-> Draw(key, i, d)])])

\* hnn.Linear.init(In, Out, key=key): a drawn weight and a zero bias
LinearInit(key) ==
    [weight |-> Normal(key, EncEmbed, DecEmbed), bias |-> Tuple([o \in DecEmbed |-> 0])]

(***************************************************************************)
(* Attention masks (levanter.models.attention.AttentionMask).  A mask      *)
(* allows a query position i to attend to a key position j.                *)
(***************************************************************************)
ExplicitAllows(kind, i, j) ==
    CASE kind = "anticausal" -> j >= i
      [] kind = "hide_first_key" -> j # 1
      [] OTHER -> TRUE

\* an AttentionMask: causal or not, and the explicit masks it holds
AttentionMask(is_causal, explicit) == [is_causal |-> is_causal, explicit |-> explicit]

\* AttentionMask.causal()
CausalMask == AttentionMask(TRUE, {})

\* a NamedArray given as a mask
ExplicitMask(kind) == AttentionMask(FALSE, {kind})

\* a & b
MaskAnd(a, b) == AttentionMask(a.is_causal \/ b.is_causal, a.explicit \cup b.explicit)

Allows(mask, i, j) ==
    /\ mask.is_causal => j <= i
    /\ \A kind \in mask.explicit : ExplicitAllows(kind, i, j)

\* the attn_mask argument: None, an AttentionMask or a NamedArray
AttnMaskArgs ==
    {Unbound, Bound(CausalMask), Bound(ExplicitMask("anticausal")),
     Bound(ExplicitMask("hide_first_key"))}

(***************************************************************************)
(* The library layers.                                                     *)
(***************************************************************************)
\* decoder.embeddings.embed(token)
Embed(token) == Tuple([d \in DecEmbed |-> ((token \div d) % 5) - 2])

\* encoder(mel): the audio features of one row
Encoder(mel) == <<Tuple([d \in EncEmbed |-> mel * d])>>

\* connector.embeddings.position_embeddings.embed(i)
PositionEmbed(i) == Tuple([d \in EncEmbed |-> i - 1])

\* hnn.Linear: weight and bias applied to one vector
Linear(projection, x) ==
    Tuple([o \in DecEmbed |->
        SumSeq(Tuple([d \in DOMAIN x |-> projection.weight[d][o] * x[d]]))
        + projection.bias[o]])

\* self-attention of a transformer at query position i over the sequence x:
\* the positions the mask allows, weighted by their distance to i
Attend(x, mask, i) ==
    Tuple([d \in DOMAIN x[1] |->
        SumSeq(Tuple([j \in DOMAIN x |->
            IF Allows(mask, i, j) THEN (i - j + 1) * x[j][d] ELSE 0]))])

\* connector.transformer(queries, audio_features, mask) at position i:
\* self-attention over the queries and cross-attention over the audio
ConnectorTransformer(queries, audio_features, mask, i) ==
    LET self == Attend(queries, mask, i)
    IN  Tuple([d \in EncEmbed |->
            self[d] + SumSeq(Tuple([f \in DOMAIN audio_features |-> audio_features[f][d]]))])

\* decoder.transformer(embeds, attn_mask=mask) at position i
DecoderTransformer(embeds, mask, i) == Attend(embeds, mask, i)

(***************************************************************************)
(* ViaModel.init (via.py:116-134).                                         *)
(***************************************************************************)
\* ViaModel.init with the projection drawn from its own subkey
ViaModelInitOwnKeys(c, key) ==
    LET ks == maybe_rng_split(key, 5)
    IN  [query_tokens |-> Normal(ks[1], TimeGroup, EncEmbed),
         projection |-> LinearInit(ks[2]),
         init_key |-> [query_tokens |-> ks[1], projection |-> ks[2], encoder |-> ks[3],
                       connector |-> ks[4], decoder |-> ks[5]],
         config |-> c]

\* ViaModel.init refusing a TimeGroup that time_dialation does not divide
ViaModelInitChecked(c, key) ==
    IF PosSize % c.time_dialation # 0 THEN Unbound ELSE Bound(ViaModelInitOwnKeys(c, key))

\* the model ViaModel.init returns: query tokens of TimeGroup positions,
\* a projection from the encoder's embed axis to the decoder's, and the
\* key each component was initialised from
ViaModelInitValue(c, key) ==
    LET ks == maybe_rng_split(key, 5)
        k_query == ks[1]
        k_projection == ks[2]
        k_enc == ks[3]
        k_connector == ks[4]
        k_dec == ks[5]
    IN  [query_tokens |-> Normal(k_query, TimeGroup, EncEmbed),
         projection |-> LinearInit(key),
         init_key |-> [query_tokens |-> k_query, projection |-> key, encoder |-> k_enc,
                       connector |-> k_connector, decoder |-> k_dec],
         config |-> c]

\* ViaModel.init: no check of the configuration, it always returns a model
ViaModelInitResult(c, key) == Bound(ViaModelInitValue(c, key))

(***************************************************************************)
(* ViaModel.__call__ (via.py:140-216).                                     *)
(***************************************************************************)
\* lines 152-154 with the supplied mask taking the causal mask's place
connector_mask_supplied_alone(attn_mask) ==
    IF attn_mask # Unbound THEN ValueOf(attn_mask) ELSE CausalMask

\* lines 152-154: the mask handed to the connector and to the decoder
causal_mask_of(attn_mask) ==
    IF attn_mask # Unbound THEN MaskAnd(CausalMask, ValueOf(attn_mask)) ELSE CausalMask

\* the place of item j in a stable ascending sort of keys
RankOf(keys, j) ==
    Cardinality({k \in DOMAIN keys : keys[k] < keys[j]})
    + Cardinality({k \in DOMAIN keys : k < j /\ keys[k] = keys[j]}) + 1

\* hax.argsort(keys, "position"): the indices of keys in ascending order,
\* equal keys in their original order (jax sorts are stable)
Argsort(keys) ==
    LET rank == Tuple([j \in DOMAIN keys |-> RankOf(keys, j)])
    IN  Tuple([i \in DOMAIN keys |-> CHOOSE j \in DOMAIN keys : rank[j] = i])

\* text_tokens == pad_token_id, as 0 and 1 (False sorts before True)
PadIndicator(tokens, pad) ==
    Tuple([i \in DOMAIN tokens |-> IF tokens[i] = pad THEN 1 ELSE 0])

\* lines 184-196 with the reordering left out: the row stays as concatenated
PushBackPaddingLeftOut(c, row, pad) ==
    LET text_tokens == c.pre_audio_prompt \o row \o c.pre_text_prompt
    IN  [before |-> text_tokens,
         push_back_padding |-> Tuple([i \in DOMAIN text_tokens |-> i]),
         text_tokens |-> text_tokens]

\* lines 184-196 for one row: prefix, input and suffix with the pads pushed back
PushBackPadding(c, row, pad) ==
    LET text_tokens == c.pre_audio_prompt \o row \o c.pre_text_prompt
        push_back_padding == Argsort(PadIndicator(text_tokens, pad))
    IN  [before |-> text_tokens,
         push_back_padding |-> push_back_padding,
         text_tokens |->
            Tuple([i \in DOMAIN text_tokens |-> text_tokens[push_back_padding[i]]])]

\* lines 203 and 213: (hax.sum(text_tokens == pad_token_id) * -1) - 1, as a
\* position of the row
LastTextIndex(text_tokens, pad) ==
    PyIndex(Len(text_tokens), (SumSeq(PadIndicator(text_tokens, pad)) * (-1)) - 1)

\* lines 200-205.  `suffix` is, since line 172, the embedded suffix: the
\* token of each row is compared with each entry of the embedding of the
\* last suffix token, which gives one boolean per row and embed index.  The
\* truth value of an array of more than one element is an error.
AssertionOutcome(c, text_tokens, pad, debug) ==
    LET suffix == Tuple([i \in DOMAIN c.pre_text_prompt |-> Embed(c.pre_text_prompt[i])])
        last == suffix[PyIndex(Len(suffix), -1)]
        compared == Tuple([b \in DOMAIN text_tokens |->
                        Tuple([d \in DOMAIN last |->
                            text_tokens[b][LastTextIndex(text_tokens[b], pad)] = last[d]])])
    IN  IF ~debug THEN "skipped"
        ELSE IF Len(compared) * Len(last) # 1 THEN "ValueError"
        ELSE IF compared[1][1] THEN "passed"
        ELSE "AssertionError"

\* lines 161-168 with the connector's outputs grouped before the projection
VirtualTokensGrouped(model, virt_whisper_tokens) ==
    Tuple([b \in DOMAIN virt_whisper_tokens |->
        Tuple([g \in 1..(PosSize \div model.config.time_dialation) |->
            Linear(model.projection,
                   virt_whisper_tokens[b][(g - 1) * model.config.time_dialation + 1])])])

\* line 168: the projection applied to the connector's output at each position
VirtualTokens(model, virt_whisper_tokens) ==
    Tuple([b \in DOMAIN virt_whisper_tokens |->
        Tuple([i \in DOMAIN virt_whisper_tokens[b] |->
            Linear(model.projection, virt_whisper_tokens[b][i])])])

\* the whole of __call__: what it computes, in the order it computes it
ViaCall(model, mel, input_ids, attn_mask, pad, debug) ==
    LET c == model.config
        causal_mask == causal_mask_of(attn_mask)
        audio_features == Tuple([b \in DOMAIN mel |-> Encoder(mel[b])])
        queries ==
            Tuple([i \in TimeGroup |-> VecAdd(model.query_tokens[i], PositionEmbed(i))])
        virt_whisper_tokens ==
            Tuple([b \in DOMAIN mel |->
                Tuple([i \in TimeGroup |->
                    ConnectorTransformer(queries, audio_features[b], causal_mask, i)])])
        virtual_tokens == VirtualTokens(model, virt_whisper_tokens)
        prefix == Tuple([i \in DOMAIN c.pre_audio_prompt |-> Embed(c.pre_audio_prompt[i])])
        suffix == Tuple([i \in DOMAIN c.pre_text_prompt |-> Embed(c.pre_text_prompt[i])])
        audio_embeds ==
            Tuple([b \in DOMAIN mel |-> prefix \o virtual_tokens[b] \o suffix])
        pushed == Tuple([b \in DOMAIN input_ids |-> PushBackPadding(c, input_ids[b], pad)])
        text_tokens == Tuple([b \in DOMAIN input_ids |-> pushed[b].text_tokens])
        text_embeds ==
            Tuple([b \in DOMAIN input_ids |->
                Tuple([i \in DOMAIN text_tokens[b] |-> Embed(text_tokens[b][i])])])
        assertion == AssertionOutcome(c, text_tokens, pad, debug)
        raised == assertion \in {"ValueError", "AssertionError"}
    IN  [connector_mask |-> causal_mask,
         virt_whisper_tokens |-> virt_whisper_tokens,
         virtual_tokens |-> virtual_tokens,
         push_back_padding |->
            Tuple([b \in DOMAIN input_ids |-> pushed[b].push_back_padding]),
         text_tokens |-> text_tokens,
         assertion |-> assertion,
         raised |-> raised,
         axes |-> <<"batch", "embed">>,
         audio_pred |->
            IF raised THEN <<>>
            ELSE Tuple([b \in DOMAIN mel |->
                    DecoderTransformer(audio_embeds[b], causal_mask,
                                       PyIndex(Len(audio_embeds[b]), -1))]),
         virt_pred |->
            IF raised THEN <<>>
            ELSE Tuple([b \in DOMAIN input_ids |->
                    DecoderTransformer(text_embeds[b], causal_mask,
                                       LastTextIndex(text_tokens[b], pad))])]

(***************************************************************************)
(* ViaASRModel.compute_loss (via.py:220-235).                              *)
(***************************************************************************)
\* reduction: None or hax.mean
Reductions == {"None", "mean"}

\* a tensor of values over the axes named; a mean keeps its divisor
Tensor(axes, values, den) == [axes |-> axes, values |-> values, den |-> den]

\* reduction(loss, axis=None) with the mean left a sum
ReduceMeanAsSum(reduction, loss) ==
    IF reduction = "None" THEN loss
    ELSE Tensor(<<>>, <<SumSeq(loss.values)>>, 1)

\* lines 232-235
Reduce(reduction, loss) ==
    IF reduction = "None" THEN loss
    ELSE Tensor(<<>>, <<SumSeq(loss.values)>>, Len(loss.values))

\* lines 230-231 with the distance taken between the virtual tokens and the
\* embeddings of the tokens where the loss mask is set
MaskedEmbeddingDistance(fwd, example) ==
    Tensor(<<"batch">>,
           Tuple([b \in DOMAIN fwd.audio_pred |->
               SumSeq(Tuple([p \in Pos |->
                   IF example.loss_mask[b][p]
                   THEN LET diff == VecSub(fwd.virtual_tokens[b][p], Embed(example.tokens[b][p]))
                        IN  Dot(diff, diff)
                   ELSE 0]))]),
           1)

\* lines 230-231: the squared distance of the two decoder outputs of each
\* row; the position axis went at lines 209-215, the embed axis goes here
SquaredDistance(fwd, example) ==
    Tensor(SelectSeq(fwd.axes, LAMBDA a : a # "embed"),
           Tuple([b \in DOMAIN fwd.audio_pred |->
               LET diff == VecSub(fwd.audio_pred[b], fwd.virt_pred[b])
               IN  Dot(diff, diff)]),
           1)

\* the value compute_loss returns when the call of the model returns
compute_loss_value(model, example, reduction) ==
    LET fwd == ViaCall(model, example.audio, example.tokens, example.attn_mask,
                       pad_token_id_default, FALSE)
    IN  Reduce(reduction, SquaredDistance(fwd, example))

(***************************************************************************)
(* Examples (levanter.models.asr_model.AudioTextExample).                  *)
(***************************************************************************)
TextTokens == {9906}

InputTokens == {pad_token_id_default} \cup TextTokens

MelValues == {0, 1}

\* AudioTextExample.init: the loss mask leaves the padding out
AudioTextExample(audio, tokens, attn_mask) ==
    [audio |-> audio,
     tokens |-> tokens,
     loss_mask |-> [b \in DOMAIN tokens |->
                      [p \in DOMAIN tokens[b] |-> tokens[b][p] # pad_token_id_default]],
     attn_mask |-> attn_mask]

AllTokens == [Batch -> [Pos -> InputTokens]]

\* every batch of tokens under every mask, the audio of row b being b - 1
ExamplesFwd ==
    {AudioTextExample([b \in Batch |-> b - 1], tokens, attn_mask) :
        tokens \in AllTokens, attn_mask \in AttnMaskArgs}

\* every audio and every mask, for the batches whose rows are alike
ExamplesCfg ==
    {AudioTextExample([b \in Batch |-> mel], [b \in Batch |-> row], attn_mask) :
        mel \in MelValues, row \in [Pos -> InputTokens], attn_mask \in AttnMaskArgs}

\* no call of the model yet
NoCall == [op |-> "none"]

(***************************************************************************)
(* main() of train_asr.py.                                                 *)
(***************************************************************************)
\* initialize_from_hf: Union[bool, str]
InitializeFromHfValues == {"False", "True", "checkpoint"}

Truthy(v) == v # "False"

IsStr(v) == v = "checkpoint"

Configs ==
    [initialize_from_hf : InitializeFromHfValues,
     trainer_initialize_from : {"None", "checkpoint"},
     use_hf_model_config : BOOLEAN,
     via_init : BOOLEAN,
     model_is_hf_compat : BOOLEAN]

\* trainer.initial_state(training_key, model=model, is_trainable=...): a fresh
\* state at step 0, or the state of a checkpoint it found, at its step.
initial_state(model, is_trainable, step) ==
    [step |-> step, model |-> model, is_trainable |-> is_trainable]

Init ==
    /\ pc = "setup_converter"
    /\ cfg \in Configs
    /\ state = Unbound
    /\ err = "none"
    /\ config = DefaultViaConfig
    /\ via = Unbound
    /\ call = NoCall

Raise(e) ==
    /\ pc' = "raised"
    /\ err' = e
    /\ UNCHANGED <<cfg, state, viaVars>>

\* lines 57-84
SetupConverter ==
    /\ pc = "setup_converter"
    /\ IF Truthy(cfg.initialize_from_hf) /\ cfg.trainer_initialize_from # "None"
       THEN Raise("ValueError")
       ELSE IF Truthy(cfg.initialize_from_hf) /\ ~cfg.model_is_hf_compat
       THEN Raise("AssertionError")
       ELSE /\ pc' = "initialize"
            /\ UNCHANGED <<cfg, state, err, viaVars>>

\* lines 86-92: HfConfig.from_pretrained needs a checkpoint name
Initialize ==
    /\ pc = "initialize"
    /\ IF cfg.via_init /\ ~IsStr(cfg.initialize_from_hf)
       THEN Raise("from_pretrained")
       ELSE /\ pc' = "load_model"
            /\ cfg' = IF cfg.via_init
                      THEN [cfg EXCEPT !.model_is_hf_compat = TRUE]
                      ELSE cfg
            /\ UNCHANGED <<state, err, viaVars>>

\* lines 98-150
LoadModel ==
    /\ pc = "load_model"
    /\ pc' = "check_step"
    /\ IF Truthy(cfg.initialize_from_hf)
       THEN \E model \in ModelShapes, step \in 0..MaxStep :
                state' = Bound(initial_state(model, connector_only(model), step))
       ELSE state' = state
    /\ UNCHANGED <<cfg, err, viaVars>>

\* lines 152-192: int(state.step) reads the local variable
CheckStep ==
    /\ pc = "check_step"
    /\ IF state = Unbound
       THEN Raise("UnboundLocalError")
       ELSE /\ pc' = "seek_and_train"
            /\ IF ValueOf(state).step = 0 /\ Truthy(cfg.initialize_from_hf)
               THEN \E model \in ModelShapes :
                        state' = Bound([ValueOf(state) EXCEPT !.model = model])
               ELSE state' = state
            /\ UNCHANGED <<cfg, err, viaVars>>

\* lines 208-219
SeekAndTrain ==
    /\ pc = "seek_and_train"
    /\ pc' = "trained"
    /\ UNCHANGED <<cfg, state, err, viaVars>>

Next ==
    \/ SetupConverter
    \/ Initialize
    \/ LoadModel
    \/ CheckStep
    \/ SeekAndTrain

Spec == Init /\ [][Next]_vars

(***************************************************************************)
(* The model's operations as actions.                                      *)
(***************************************************************************)
Idle ==
    /\ pc = "idle"
    /\ cfg = [initialize_from_hf |-> "False", trainer_initialize_from |-> "None",
              use_hf_model_config |-> FALSE, via_init |-> FALSE,
              model_is_hf_compat |-> TRUE]
    /\ state = Unbound
    /\ err = "none"

\* ViaModel.init(Vocab, config, key=key)
ViaModelInit ==
    /\ via = Unbound
    /\ call.op = "none"
    /\ \E key \in Seeds :
        /\ via' = ViaModelInitResult(config, key)
        /\ call' = [op |-> "init", key |-> key,
                    outcome |-> IF via' = Unbound THEN "raised" ELSE "returned"]
    /\ UNCHANGED <<config, mainVars>>

\* a call is made when the one before it is over
CanCall == via # Unbound /\ call.op \in {"none", "init"}

\* the caller takes what the call returned or raised
Return ==
    /\ call.op \in {"call", "compute_loss"}
    /\ call' = NoCall
    /\ UNCHANGED <<config, via, mainVars>>

\* model(mel, input_ids, attn_mask, pad_token_id), on the inputs of an example
Call(examples) ==
    /\ CanCall
    /\ \E example \in examples, debug \in BOOLEAN :
        LET fwd == ViaCall(ValueOf(via), example.audio, example.tokens,
                           example.attn_mask, pad_token_id_default, debug)
        IN  call' = [op |-> "call", example |-> example, debug |-> debug,
                     reduction |-> "None", fwd |-> fwd,
                     outcome |-> IF fwd.raised THEN "raised" ELSE "returned",
                     result |-> Tensor(<<>>, <<>>, 1)]
    /\ UNCHANGED <<config, via, mainVars>>

\* model.compute_loss(example, key=key, reduction=reduction)
ComputeLoss(examples) ==
    /\ CanCall
    /\ \E example \in examples, debug \in BOOLEAN, reduction \in Reductions :
        LET fwd == ViaCall(ValueOf(via), example.audio, example.tokens,
                           example.attn_mask, pad_token_id_default, debug)
        IN  call' = [op |-> "compute_loss", example |-> example, debug |-> debug,
                     reduction |-> reduction, fwd |-> fwd,
                     outcome |-> IF fwd.raised THEN "raised" ELSE "returned",
                     result |-> IF fwd.raised THEN Tensor(<<>>, <<>>, 1)
                                ELSE Reduce(reduction, SquaredDistance(fwd, example))]
    /\ UNCHANGED <<config, via, mainVars>>

InitFwd ==
    /\ Idle
    /\ config = DefaultViaConfig
    /\ via = ViaModelInitResult(DefaultViaConfig, <<0>>)
    /\ call = NoCall

NextFwd ==
    \/ Call(ExamplesFwd)
    \/ ComputeLoss(ExamplesFwd)
    \/ Return

SpecFwd == InitFwd /\ [][NextFwd]_vars

InitCfg ==
    /\ Idle
    /\ config \in {ViaConfig(t) : t \in 1..time_dialation_default}
    /\ via = Unbound
    /\ call = NoCall

NextCfg ==
    \/ ViaModelInit
    \/ Call(ExamplesCfg)
    \/ ComputeLoss(ExamplesCfg)
    \/ Return

SpecCfg == InitCfg /\ [][NextCfg]_vars

(***************************************************************************)
(* The trainable mask (checked under Spec, on the state that line 144 of   *)
(* train_asr.py builds).                                                   *)
(***************************************************************************)
StateBuilt == pc = "check_step" /\ state # Unbound

\* the parameter leaves of `model` that `mask` marks trainable: a mask leaf
\* speaks for every parameter at or below it
TrainableLeaves(model, mask) ==
    {k \in DOMAIN model : \E m \in DOMAIN mask : Covers(m, k) /\ mask[m]}

LeavesUnder(model, node) == {k \in DOMAIN model : IsPrefix(node, k.path)}

\* C1: the mask connector_only builds marks exactly the query tokens, the
\* projection weight and the projection bias trainable, and every other
\* parameter (encoder, connector, decoder) non-trainable.
C1_ExactlyThreeTrainable ==
    StateBuilt =>
        LET st == ValueOf(state)
            on == TrainableLeaves(st.model, st.is_trainable)
        IN  /\ on = LeavesUnder(st.model, QueryTokensNode)
                     \cup LeavesUnder(st.model, ProjectionWeightNode)
                     \cup LeavesUnder(st.model, ProjectionBiasNode)
            /\ Cardinality(on) = 3
            /\ \A k \in LeavesUnder(st.model, EncoderNode)
                        \cup LeavesUnder(st.model, ConnectorNode)
                        \cup LeavesUnder(st.model, DecoderNode) : k \notin on

C1_Witness ==
    /\ StateBuilt
    /\ Cardinality(LeavesUnder(ValueOf(state).model, ConnectorNode)) > 2
    /\ Cardinality(LeavesUnder(ValueOf(state).model, EncoderNode)) > 1

\* C2 as claimed: the mask has the model's tree structure, one boolean leaf
\* for each parameter leaf (those under the connector included), and so as
\* many leaves as the model.
C2_SameStructure ==
    StateBuilt =>
        LET st == ValueOf(state)
        IN  /\ \A k \in DOMAIN st.model : k \in DOMAIN st.is_trainable
            /\ Cardinality(DOMAIN st.is_trainable) = Cardinality(DOMAIN st.model)

\* C2 as amended: the mask is a prefix of the model's tree.  Every parameter
\* leaf is covered by exactly one boolean leaf and every boolean leaf covers
\* a parameter; the connector is one leaf, so the mask has as many leaves
\* as the model less the connector's leaves but one; outside the four nodes
\* connector_only replaces, the leaves are the model's own.
C2_MaskIsPrefixTree ==
    StateBuilt =>
        LET st == ValueOf(state)
            mask == st.is_trainable
            replaced == UNION {LeavesUnder(st.model, connector_only_where[i]) :
                                 i \in DOMAIN connector_only_where}
        IN  /\ \A k \in DOMAIN st.model :
                    Cardinality({m \in DOMAIN mask : Covers(m, k)}) = 1
            /\ \A m \in DOMAIN mask : \E k \in DOMAIN st.model : Covers(m, k)
            /\ Cardinality(DOMAIN mask) =
                    Cardinality(DOMAIN st.model)
                    - (Cardinality(LeavesUnder(st.model, ConnectorNode)) - 1)
            /\ Cardinality(DOMAIN mask) < Cardinality(DOMAIN st.model)
            /\ \A k \in DOMAIN st.model \ replaced : k \in DOMAIN mask

C2_Witness ==
    /\ StateBuilt
    /\ Cardinality(LeavesUnder(ValueOf(state).model, ConnectorNode)) > 2
    /\ Cardinality(DOMAIN ValueOf(state).is_trainable) = 7

(***************************************************************************)
(* The training state of main() (checked under Spec).                      *)
(***************************************************************************)
\* C9: on every configuration path, trainer.initial_state has created the
\* training state before state.step is first read (line 152); training from
\* scratch reaches the step check with a state and is not ended by the read.
C9_StateBoundBeforeStepRead ==
    /\ pc = "check_step" => state # Unbound
    /\ err # "UnboundLocalError"

(***************************************************************************)
(* The forward pass (checked under SpecFwd and SpecCfg).                   *)
(***************************************************************************)
\* a call of the model, alone or inside compute_loss, is over
Called == call.op \in {"call", "compute_loss"}

Returned == Called /\ call.outcome = "returned"

\* C8: the mask handed to the connector lets a query position attend to a
\* key position exactly when the causal mask does and, if a mask was
\* supplied, the supplied mask does too; with none supplied it is the causal
\* mask alone.
C8_ConnectorMaskIsCausalAndSupplied ==
    Called =>
        LET supplied == call.example.attn_mask
            handed == call.fwd.connector_mask
        IN  /\ \A i \in TimeGroup, j \in TimeGroup :
                Allows(handed, i, j) <=>
                    /\ j <= i
                    /\ supplied # Unbound => Allows(ValueOf(supplied), i, j)
            /\ supplied = Unbound => handed = CausalMask

C8_Witness ==
    /\ Called
    /\ call.example.attn_mask = Bound(ExplicitMask("hide_first_key"))
    /\ \E i \in TimeGroup, j \in TimeGroup :
        j <= i /\ ~Allows(call.fwd.connector_mask, i, j)

\* the tokens of a row that are not padding, in their order
NonPads(row, pad) == SelectSeq(row, LAMBDA t : t # pad)

Pads(row, pad) == SelectSeq(row, LAMBDA t : t = pad)

\* C10: in every row the reordering puts all pad tokens behind all other
\* tokens and keeps the others in their original order, the token at index
\* -(number of pads) - 1 is the last token of the suffix prompt, and the
\* assertion on it holds (the call is not ended by it).
C10_PadsPushedBackAndAssertionHolds ==
    Called =>
        /\ \A b \in Batch :
            LET before == config.pre_audio_prompt \o call.example.tokens[b]
                            \o config.pre_text_prompt
                after == call.fwd.text_tokens[b]
            IN  /\ after = NonPads(before, pad_token_id_default)
                            \o Pads(before, pad_token_id_default)
                /\ after[LastTextIndex(after, pad_token_id_default)]
                        = config.pre_text_prompt[Len(config.pre_text_prompt)]
        /\ call.fwd.assertion \notin {"ValueError", "AssertionError"}
        /\ call.outcome = "returned"

(***************************************************************************)
(* The virtual tokens and the configuration (checked under SpecCfg).       *)
(***************************************************************************)
\* C6 as claimed: the virtual tokens have TimeGroup / GroupingFactor
\* positions, each the projection of GroupingFactor adjacent connector
\* outputs flattened to a vector of width embed * GroupingFactor.
C6_GroupedPositions ==
    Returned =>
        /\ \A b \in Batch :
            Len(call.fwd.virtual_tokens[b]) * config.time_dialation = PosSize
        /\ Len(ValueOf(via).projection.weight) = GroupedEmbed(config)

\* C6 as amended: the virtual tokens have exactly TimeGroup positions
\* whatever the grouping factor; each is the projection of the connector's
\* output at the same position, a vector of the encoder's embed width.
C6_OneVirtualTokenPerQuery ==
    Returned =>
        /\ \A b \in Batch :
            /\ Len(call.fwd.virt_whisper_tokens[b]) = PosSize
            /\ Len(call.fwd.virtual_tokens[b]) = PosSize
            /\ \A i \in TimeGroup :
                /\ Len(call.fwd.virt_whisper_tokens[b][i]) = EmbedSize
                /\ call.fwd.virtual_tokens[b][i]
                     = Linear(ValueOf(via).projection, call.fwd.virt_whisper_tokens[b][i])
        /\ Len(ValueOf(via).projection.weight) = EmbedSize

C6_Witness ==
    /\ Returned
    /\ config.time_dialation = time_dialation_default
    /\ PosSize % config.time_dialation # 0
    /\ Len(call.fwd.virtual_tokens[1]) = PosSize
    /\ \E i \in TimeGroup : \E d \in DecEmbed : call.fwd.virtual_tokens[1][i][d] # 0

\* TimeGroup is not evenly divisible by the grouping factor
NotDivisible == PosSize % config.time_dialation # 0

\* C7 as claimed: a configuration whose TimeGroup the grouping factor does
\* not divide is rejected when the model is constructed; no model is built
\* from it and no forward pass runs.
C7_NonDivisibleRejected ==
    NotDivisible =>
        /\ via = Unbound
        /\ call.op = "init" => call.outcome = "raised"
        /\ ~Called

\* C7 as amended: ViaModel.init checks nothing and returns a model for
\* every configuration, divisible or not.
C7_InitAlwaysReturns ==
    call.op = "init" =>
        /\ call.outcome = "returned"
        /\ via # Unbound
        /\ ValueOf(via).config = config

C7_Witness ==
    /\ NotDivisible
    /\ call.op = "compute_loss"
    /\ call.outcome = "returned"
    /\ call.reduction = "mean"

(***************************************************************************)
(* The loss (checked under SpecFwd).                                       *)
(***************************************************************************)
LossReturned == call.op = "compute_loss" /\ call.outcome = "returned"

\* the squared Euclidean distance of two vectors, term by term
SquaredNorm(x) == SumSeq(Tuple([d \in DOMAIN x |-> x[d] * x[d]]))

Distance(x, y) == SquaredNorm(x) + SquaredNorm(y) - 2 * Dot(x, y)

\* the sum of f[b][p] over the text positions the loss mask marks
MaskedSum(example, f) ==
    SumSeq(Tuple([b \in Batch |->
        SumSeq(Tuple([p \in Pos |-> IF example.loss_mask[b][p] THEN f[b][p] ELSE 0]))]))

\* the pseudo-logit of a vocabulary entry for a virtual token: the negative
\* squared distance to the entry's embedding
Score(v, token) == 0 - Distance(v, Embed(token))

\* the cross-entropy of the pseudo-logits of v against `token` is
\* log(sum over the vocabulary of exp(Score(v, t) - Score(v, token))): at
\* least the largest margin, at most that margin plus log |InputTokens|
Margin(v, token) ==
    LET m == {Score(v, t) - Score(v, token) : t \in InputTokens}
    IN  CHOOSE x \in m : \A y \in m : y <= x

\* C3 as claimed: the loss is the cross-entropy of the pseudo-logits
\* against the real tokens plus 0.025 times the squared distance between
\* the virtual tokens and the embeddings of the tokens, both averaged over
\* the masked positions.  With loss = num / den over n masked positions,
\* distances summing to D and margins summing to M, the claim puts
\* 40 * n * num - den * D, which is 40 * n * den times the cross-entropy,
\* between 40 * den * M and 40 * den * (M + n * (|InputTokens| - 1)).
C3_CrossEntropyPlusWeightedDistance ==
    LossReturned /\ call.reduction = "mean" =>
        LET example == call.example
            virt == call.fwd.virtual_tokens
            n == MaskedSum(example, [b \in Batch |-> [p \in Pos |-> 1]])
            D == MaskedSum(example, [b \in Batch |-> [p \in Pos |->
                    Distance(virt[b][p], Embed(example.tokens[b][p]))]])
            M == MaskedSum(example, [b \in Batch |-> [p \in Pos |->
                    Margin(virt[b][p], example.tokens[b][p])]])
            num == call.result.values[1]
            den == call.result.den
            scaled == 40 * n * num - den * D
        IN  n > 0 =>
                /\ 40 * den * M <= scaled
                /\ scaled <= 40 * den * (M + n * (Cardinality(InputTokens) - 1))

\* C3 as amended: the loss is, for each batch row, the squared Euclidean
\* distance between the decoder's output at the last position of the audio
\* sequence and its output at the last suffix token of the text sequence,
\* with no cross-entropy term and no 0.025 weight; reduction=mean averages
\* it over the rows.  It is zero exactly when the two outputs agree.
C3_LossIsDistanceOfDecoderOutputs ==
    LossReturned =>
        LET rows == Tuple([b \in Batch |->
                        Distance(call.fwd.audio_pred[b], call.fwd.virt_pred[b])])
        IN  /\ call.reduction = "None" =>
                /\ call.result.values = rows
                /\ call.result.den = 1
            /\ call.reduction = "mean" =>
                /\ call.result.values = <<SumSeq(rows)>>
                /\ call.result.den = BatchSize
            /\ (\A i \in DOMAIN call.result.values : call.result.values[i] = 0)
                    <=> call.fwd.audio_pred = call.fwd.virt_pred

C3_Witness ==
    /\ LossReturned
    /\ call.reduction = "mean"
    /\ call.result.values[1] > 0
    /\ call.fwd.audio_pred[1] # call.fwd.virt_pred[1]
    /\ \E b \in Batch, p \in Pos : call.example.loss_mask[b][p]

\* the axes of a tensor, as a set
AxesOf(tensor) == {tensor.axes[i] : i \in DOMAIN tensor.axes}

\* C4: with reduction=None compute_loss returns the loss per position, a
\* tensor with a position axis, and its mean is the scalar compute_loss
\* returns with reduction=mean for the same example.
C4_UnreducedIsPerPosition ==
    LossReturned /\ call.reduction = "None" =>
        /\ "position" \in AxesOf(call.result)
        /\ Reduce("mean", call.result)
              = compute_loss_value(ValueOf(via), call.example, "mean")

\* the example with the padding of each row moved behind its other tokens
PadsBehind(example) ==
    [example EXCEPT !.tokens =
        [b \in Batch |-> NonPads(example.tokens[b], pad_token_id_default)
                            \o Pads(example.tokens[b], pad_token_id_default)]]

\* the example with every entry of its loss mask negated
MaskNegated(example) ==
    [example EXCEPT !.loss_mask =
        [b \in Batch |-> [p \in Pos |-> ~example.loss_mask[b][p]]]]

\* C5 as claimed: changing the token at a position whose loss mask entry is
\* false never changes the loss.
C5_MaskedOutTokensDoNotCount ==
    LossReturned =>
        \A b \in Batch, p \in Pos :
            ~call.example.loss_mask[b][p] =>
                \A t \in InputTokens :
                    compute_loss_value(ValueOf(via),
                                       [call.example EXCEPT !.tokens[b][p] = t],
                                       call.reduction) = call.result

\* C5 as amended: the loss mask is never read, so the loss is the same
\* under any loss mask; the tokens count through the padding they hold, not
\* through the mask: the loss depends on each row's tokens other than
\* padding, in their order, wherever the padding stands among them.
C5_LossIgnoresMaskAndPadPlacement ==
    LossReturned /\ ~call.debug =>
        /\ compute_loss_value(ValueOf(via), MaskNegated(call.example), call.reduction)
              = call.result
        /\ compute_loss_value(ValueOf(via), PadsBehind(call.example), call.reduction)
              = call.result

C5_Witness ==
    /\ LossReturned
    /\ ~call.debug
    /\ call.reduction = "mean"
    /\ call.example.tokens[1][1] = pad_token_id_default
    /\ call.example.tokens[1][PosSize] # pad_token_id_default
    /\ ~call.example.loss_mask[1][1]
    /\ call.result.values[1] > 0

(***************************************************************************)
(* The keys of ViaModel.init (checked under SpecCfg).                      *)
(***************************************************************************)
\* the components ViaModel.init initialises at random
Components == {"query_tokens", "projection", "encoder", "connector", "decoder"}

\* C11: ViaModel.init initialises each component from a subkey of its own:
\* every component's key is one of the five the key was split into, no two
\* components share a key, and none is initialised from the unsplit key (the
\* projection's weight is drawn from its subkey, not from the key itself).
C11_EachComponentOwnSubkey ==
    call.op = "init" /\ via # Unbound =>
        LET used == ValueOf(via).init_key
            subkeys == maybe_rng_split(call.key, 5)
        IN  /\ \A c \in Components : \E i \in DOMAIN subkeys : used[c] = subkeys[i]
            /\ \A c1 \in Components, c2 \in Components : c1 # c2 => used[c1] # used[c2]
            /\ \A c \in Components : used[c] # call.key
            /\ ValueOf(via).projection # LinearInit(call.key)

====
